---- MODULE Spec2Model ----
(***************************************************************************)
(* Model of the Trello helper scripts: the shared HTTP client              *)
(* (scripts/trello_client.py) and its three callers (create_card.py,       *)
(* fetch_card.py, manage_card.py).                                         *)
(*                                                                         *)
(* Text is a sequence of atoms.  An atom is a TLA+ string standing for     *)
(* either one reserved character (" ", "&", "=", ",", "/", ...) or a run   *)
(* of unreserved characters ("name", "Test", "abc"); literal pieces of     *)
(* format strings are single atoms.  Concatenation of Python strings is    *)
(* \o.  An optional value (None or x) is <<>> or <<x>>.  A dict is a       *)
(* sequence of <<name, value>> pairs with pairwise different names, in     *)
(* insertion order.                                                        *)
(***************************************************************************)
EXTENDS Integers, Sequences, FiniteSets, TLC

VARIABLES
    environ,            \* os.environ: the four variables the client reads
    args,               \* the program run and its command line / inputs
    pc,                 \* position of the running program
    calls,              \* every trello_request call made so far, in order
    locals,             \* local variables of the running main()
    stdout,             \* what was printed to standard output
    stderr,             \* what was printed to the error stream
    exit_status         \* <<>> while running, <<n>> after the process ended

vars == <<environ, args, pc, calls, locals, stdout, stderr, exit_status>>

None == <<>>
Some(x) == <<x>>

\* ------------------------------------------------------------------ bounds
MaxParams == 2          \* entries of a caller's parameter mapping
MaxFiles == 2           \* entries of a caller's files mapping
MaxAttachments == 2     \* --attachment options on the manage_card command line

\* ------------------------------------------------------------ text helpers
Contains(t, sub) ==
    \E i \in 0..(Len(t) - Len(sub)) : SubSeq(t, i + 1, i + Len(sub)) = sub

EndsWith(t, suffix) ==
    /\ Len(suffix) <= Len(t)
    /\ SubSeq(t, Len(t) - Len(suffix) + 1, Len(t)) = suffix

CRLF == "\r\n"
DQUOTE == "\""

\* str.rstrip(ch)
RECURSIVE RStrip(_, _)
RStrip(t, ch) ==
    IF t # <<>> /\ t[Len(t)] = ch THEN RStrip(SubSeq(t, 1, Len(t) - 1), ch) ELSE t

\* str.lstrip(ch)
RECURSIVE LStrip(_, _)
LStrip(t, ch) ==
    IF t # <<>> /\ t[1] = ch THEN LStrip(Tail(t), ch) ELSE t

\* str.strip() over the whitespace of the model's alphabet
Strip(t) == LStrip(RStrip(t, " "), " ")

\* str.upper() on a method name
Upper(m) ==
    CASE m = "get" -> "GET"
      [] m = "post" -> "POST"
      [] m = "put" -> "PUT"
      [] m = "delete" -> "DELETE"
      [] OTHER -> m

\* ------------------------------------------------------------------ dicts
DictHas(d, k) == \E i \in 1..Len(d) : d[i][1] = k
DictGet(d, k) == d[CHOOSE i \in 1..Len(d) : d[i][1] = k][2]
\* d[k] = v: an existing name keeps its position, a new one goes last
DictSet(d, k, v) ==
    IF DictHas(d, k)
    THEN [i \in 1..Len(d) |-> IF d[i][1] = k THEN <<k, v>> ELSE d[i]]
    ELSE Append(d, <<k, v>>)

\* ----------------------------------------------------- urllib.parse helpers
\* quote_plus on one atom: space becomes "+", a reserved character its
\* percent escape, a run of unreserved characters stays as it is
QuoteAtom(a) ==
    CASE a = " " -> "+"
      [] a = "&" -> "%26"
      [] a = "=" -> "%3D"
      [] a = "," -> "%2C"
      [] a = "/" -> "%2F"
      [] a = ":" -> "%3A"
      [] a = "?" -> "%3F"
      [] a = "+" -> "%2B"
      [] a = "%" -> "%25"
      [] OTHER -> a

\* (variant: nothing is escaped)
QuotePlus_unescaped(t) == t

QuotePlus(t) == [i \in 1..Len(t) |-> QuoteAtom(t[i])]

\* urllib.parse.urlencode(d) for str values (doseq only changes how values
\* that are sequences of items are written)
RECURSIVE UrlEncode(_)
UrlEncode(d) ==
    IF d = <<>> THEN <<>>
    ELSE LET pair == QuotePlus(d[1][1]) \o <<"=">> \o QuotePlus(d[1][2])
         IN IF Len(d) = 1 THEN pair ELSE pair \o <<"&">> \o UrlEncode(Tail(d))

\* -------------------------------------------------- trello_client constants
AUTHORIZATION_BASE == <<"https", ":", "/", "/", "trello.com", "/", "1", "/", "authorize">>
AUTH_EXPIRATION == <<"never">>
AUTH_NAME == <<"Codex", " ", "Trello", " ", "Access">>
REQUEST_TIMEOUT == 30
DefaultBaseUrl == <<"https", ":", "/", "/", "api.trello.com", "/", "1">>
DefaultScope == <<"read", ",", "write">>

\* os.environ.get(name, default)
EnvironGet(name, default) ==
    IF environ[name] = None THEN default ELSE environ[name][1]

BASE_URL == RStrip(EnvironGet("TRELLO_API_BASE_URL", DefaultBaseUrl), "/")
AUTH_SCOPE == EnvironGet("TRELLO_AUTH_SCOPE", DefaultScope)

authorization_url(key) ==
    LET params == << <<(<<"key">>), key>>,
                     <<(<<"scope">>), AUTH_SCOPE>>,
                     <<(<<"expiration">>), AUTH_EXPIRATION>>,
                     <<(<<"name">>), AUTH_NAME>>,
                     <<(<<"response_type">>), (<<"token">>)>> >>
    IN AUTHORIZATION_BASE \o <<"?">> \o UrlEncode(params)

InstructionsText ==
    " To grant access, open the following link while signed in as a board member, approve the addon, and set TRELLO_TOKEN to the token Trello returns: "

authorization_instructions(key) == <<InstructionsText>> \o authorization_url(key)

KeyMissingText ==
    "TRELLO_API_KEY is not configured. Export it before running the helper."
TokenMissingText ==
    "TRELLO_TOKEN is not configured. The helper can build an authorization link so you can create one."

\* A Python truth test of an optional string: None and "" are falsy
Falsy(opt) == opt = None \/ opt[1] = <<>>

\* The result of a function that returns or raises
Return(v) == [raised |-> FALSE, exc |-> "", message |-> <<>>, value |-> v]
Raise(e, msg) == [raised |-> TRUE, exc |-> e, message |-> msg, value |-> None]

require_api_key ==
    LET value == environ["TRELLO_API_KEY"]
    IN IF Falsy(value) THEN Raise("TrelloError", <<KeyMissingText>>)
       ELSE Return(value[1])

\* (variant: only an unset token is refused, an empty one is used)
require_token_unset_only(key) ==
    LET token == environ["TRELLO_TOKEN"]
    IN IF token = None
       THEN Raise("TrelloError", <<TokenMissingText>> \o authorization_instructions(key))
       ELSE Return(token[1])

require_token(key) ==
    LET token == environ["TRELLO_TOKEN"]
    IN IF Falsy(token)
       THEN Raise("TrelloError", <<TokenMissingText>> \o authorization_instructions(key))
       ELSE Return(token[1])

\* d.setdefault(k, v): an existing name keeps its value
DictSetDefault(d, k, v) == IF DictHas(d, k) THEN d ELSE Append(d, <<k, v>>)

\* (variant: a key or token the caller passed is kept)
build_auth_params_setdefault(extra) ==
    LET auth == IF extra = None \/ extra[1] = <<>> THEN <<>> ELSE extra[1]
        key == require_api_key
    IN IF key.raised THEN key
       ELSE LET token == require_token(key.value)
            IN IF token.raised THEN token
               ELSE Return(DictSetDefault(DictSetDefault(auth, <<"key">>, key.value),
                                          <<"token">>, token.value))

\* extra is an optional dict
build_auth_params(extra) ==
    LET auth == IF extra = None \/ extra[1] = <<>> THEN <<>> ELSE extra[1]
        key == require_api_key
    IN IF key.raised THEN key
       ELSE LET token == require_token(key.value)
            IN IF token.raised THEN token
               ELSE Return(DictSet(DictSet(auth, <<"key">>, key.value),
                                   <<"token">>, token.value))

\* uuid.uuid4().hex: the tokens a request's boundary is drawn from
Boundaries == {"3f2a9c", "b71e04"}

\* fields: dict of str values; files: dict of (filename, data, content_type)
RECURSIVE FieldParts(_, _)
FieldParts(boundary, fields) ==
    IF fields = <<>> THEN <<>>
    ELSE <<"--", boundary, CRLF>>
         \o <<"Content-Disposition: form-data; name=", DQUOTE>> \o fields[1][1]
         \o <<DQUOTE, CRLF, CRLF>>
         \o fields[1][2]
         \o <<CRLF>>
         \o FieldParts(boundary, Tail(fields))

RECURSIVE FileParts(_, _)
FileParts(boundary, files) ==
    IF files = <<>> THEN <<>>
    ELSE <<"--", boundary, CRLF>>
         \o <<"Content-Disposition: form-data; name=", DQUOTE>> \o files[1][1]
         \o <<DQUOTE, "; filename=", DQUOTE>> \o files[1][2][1]
         \o <<DQUOTE, CRLF, "Content-Type: ">> \o files[1][2][3]
         \o <<CRLF, CRLF>>
         \o files[1][2][2]
         \o <<CRLF>>
         \o FileParts(boundary, Tail(files))

\* (variant: the file parts are written before the scalar parts)
encode_multipart_formdata_files_first(fields, files, boundary) ==
    FileParts(boundary, files) \o FieldParts(boundary, fields)
        \o <<"--", boundary, "--", CRLF>>

\* returns the body; the boundary is the caller-visible first component
encode_multipart_formdata(fields, files, boundary) ==
    FieldParts(boundary, fields) \o FileParts(boundary, files)
        \o <<"--", boundary, "--", CRLF>>

\* trello_request up to the urlopen call: the Request object it builds, or
\* the error it raises before building one
PrepareRequest(path, params, method, files, boundary) ==
    LET m == Upper(method)
        auth == build_auth_params(params)
        url == BASE_URL \o path
    IN IF auth.raised THEN auth
       ELSE LET auth_params == auth.value
            IN IF m = "GET"
               THEN LET query == UrlEncode(auth_params)
                        full == url \o <<"?">> \o query
                    IN Return([method |-> m, url |-> full, data |-> None,
                               headers |-> <<>>, timeout |-> REQUEST_TIMEOUT])
               ELSE IF files # None /\ files[1] # <<>>
                    THEN Return([method |-> m, url |-> url,
                                 data |-> Some(encode_multipart_formdata(
                                              auth_params, files[1], boundary)),
                                 headers |-> << <<"Content-Type",
                                     <<"multipart/form-data; boundary=", boundary>> >> >>,
                                 timeout |-> REQUEST_TIMEOUT])
                    ELSE Return([method |-> m, url |-> url,
                                 data |-> Some(UrlEncode(auth_params)),
                                 headers |-> << <<"Content-Type",
                                     <<"application/x-www-form-urlencoded">> >> >>,
                                 timeout |-> REQUEST_TIMEOUT])

\* ---------------------------------------------------------------- exchanges
\* What urlopen(request, timeout) followed by json.load(response) can do:
\*   json         a 2xx response whose body decodes to .body
\*   not_json     a 2xx response whose body is not JSON: json.load raises
\*                json.JSONDecodeError
\*   http_error   urlopen raises urllib.error.HTTPError(code, reason)
\*   url_error    urlopen raises urllib.error.URLError(reason): name lookup,
\*                refused connection, timeout while connecting
\*   read_timeout the socket times out while the response is read: the
\*                TimeoutError is raised outside urllib's URLError wrapping
HttpErrorStatuses ==
    { [code |-> 401, reason |-> <<"Unauthorized">>],
      [code |-> 403, reason |-> <<"Forbidden">>],
      [code |-> 404, reason |-> <<"Not", " ", "Found">>],
      [code |-> 500, reason |-> <<"Internal", " ", "Server", " ", "Error">>] }

UrlErrorReasons ==
    { <<"[Errno -2] Name or service not known">>, <<"timed out">> }

Failures ==
    { [kind |-> "http_error", code |-> h.code, reason |-> h.reason, body |-> None]
        : h \in HttpErrorStatuses }
    \cup { [kind |-> "url_error", code |-> 0, reason |-> r, body |-> None]
        : r \in UrlErrorReasons }
    \cup { [kind |-> "not_json", code |-> 200, reason |-> <<"OK">>, body |-> None],
           [kind |-> "read_timeout", code |-> 0, reason |-> <<>>, body |-> None] }

Success(bodies) ==
    { [kind |-> "json", code |-> 200, reason |-> <<"OK">>, body |-> Some(b)]
        : b \in bodies }

\* The exception the try block of trello_request raises, "" when it returns
TryBlockRaises(outcome) ==
    CASE outcome.kind = "json" -> ""
      [] outcome.kind = "not_json" -> "JSONDecodeError"
      [] outcome.kind = "http_error" -> "HTTPError"
      [] outcome.kind = "url_error" -> "URLError"
      [] outcome.kind = "read_timeout" -> "TimeoutError"

\* trello_request from the urlopen call on: the value returned or the
\* exception that leaves the function
HandleExchange(url, auth_params, outcome) ==
    LET exc == TryBlockRaises(outcome)
    IN CASE exc = "" -> Return(outcome.body[1])
         [] exc = "HTTPError" ->
              LET instructions ==
                      IF outcome.code \in {401, 403}
                      THEN authorization_instructions(
                               IF DictHas(auth_params, <<"key">>)
                               THEN DictGet(auth_params, <<"key">>) ELSE <<>>)
                      ELSE <<>>
              IN Raise("TrelloError",
                       <<"HTTP ", ToString(outcome.code), " calling ">> \o url
                           \o <<": ">> \o outcome.reason \o <<".">> \o instructions)
         [] exc = "URLError" ->
              Raise("TrelloError", <<"Unable to reach Trello: ">> \o outcome.reason)
         [] OTHER -> Raise(exc, <<>>)

\* ------------------------------------------------------------ call records
\* One record per trello_request call: its arguments, the requests it handed
\* to urlopen, what the exchange did, and how the call ended ("pending"
\* while the exchange is under way)
NewCall(path, params, method, files, boundary) ==
    LET prep == PrepareRequest(path, params, method, files, boundary)
    IN [path |-> path, params |-> params, method |-> method, files |-> files,
        requests |-> IF prep.raised THEN <<>> ELSE <<prep.value>>,
        state |-> IF prep.raised THEN "raised" ELSE "pending",
        exchange |-> None,
        result |-> IF prep.raised THEN prep ELSE Return(None)]

\* (variant: a request that could not reach the host is sent again)
FinishCall_retry(c, outcome) ==
    LET auth == build_auth_params(c.params)
        res == HandleExchange(c.requests[1].url, auth.value, outcome)
    IN IF outcome.kind = "url_error"
       THEN [c EXCEPT !.requests = Append(@, @[1])]
       ELSE [c EXCEPT !.state = IF res.raised THEN "raised" ELSE "returned",
                      !.exchange = Some(outcome),
                      !.result = res]

\* The exchange of a pending call ends with outcome
FinishCall(c, outcome) ==
    LET auth == build_auth_params(c.params)
        res == HandleExchange(c.requests[1].url, auth.value, outcome)
    IN [c EXCEPT !.state = IF res.raised THEN "raised" ELSE "returned",
                 !.exchange = Some(outcome),
                 !.result = res]

trello_get(path, params, boundary) == NewCall(path, params, "GET", None, boundary)
trello_post(path, params, files, boundary) == NewCall(path, params, "POST", files, boundary)
trello_put(path, params, files, boundary) == NewCall(path, params, "PUT", files, boundary)

LastCall == calls[Len(calls)]
Pending == calls # <<>> /\ LastCall.state = "pending"
SetLast(c) == [calls EXCEPT ![Len(calls)] = c]

\* ------------------------------------------------------------------- inputs
KeyText == <<"k3y">>
TokenText == <<"t0k", "/", "en">>

\* os.environ as the process finds it: each credential unset, empty or set;
\* the two optional overrides both unset or both set
Environments ==
    { [TRELLO_API_KEY |-> k, TRELLO_TOKEN |-> t,
       TRELLO_AUTH_SCOPE |-> o[1], TRELLO_API_BASE_URL |-> o[2]] :
        k \in {None, Some(<<>>), Some(KeyText)},
        t \in {None, Some(<<>>), Some(TokenText)},
        o \in { <<None, None>>,
                <<Some(<<"read">>), Some(<<"http", ":", "/", "/", "localhost", "/">>)>> } }

\* Entries a caller's parameter mapping is built from
ParamPool ==
    { <<(<<"name">>), (<<"Test">>)>>,
      <<(<<"idList">>), (<<"abc">>)>>,
      <<(<<"text">>), (<<"a", " ", "b", "&", "c", "=", "d">>)>>,
      <<(<<"key">>), (<<"other">>)>>,
      <<(<<"token">>), (<<"forged">>)>> }

FilePool ==
    { <<(<<"file">>), <<(<<"a.txt">>), (<<"hello", CRLF, "--", "world">>), (<<"text/plain">>)>> >>,
      <<(<<"extra">>), <<(<<"b">>), (<<>>), (<<"application/octet-stream">>)>> >>,
      <<(<<"cover">>), <<(<<"c.png">>), (<<"PNG", "&", "=">>), (<<"image/png">>)>> >> }

\* The dicts of at most n entries over pool, names pairwise different
RECURSIVE DictsOver(_, _)
DictsOver(pool, n) ==
    IF n = 0 THEN {<<>>}
    ELSE LET shorter == DictsOver(pool, n - 1)
         IN shorter \cup { Append(d, e) : <<d, e>> \in
                             { x \in shorter \X pool : ~DictHas(x[1], x[2][1]) } }

ParamDicts == DictsOver(ParamPool, MaxParams)
FileDicts == DictsOver(FilePool, MaxFiles)
Methods == {"get", "POST", "PUT"}
ClientPaths == { <<"/", "cards">> }

GenericBodies == { [id |-> <<"c1">>], [id |-> <<"c2">>] }

\* ------------------------------------------------- direct use of the client
\* A caller invoking trello_request(path, params, method, files) once
InitClient ==
    /\ environ \in Environments
    /\ \E m \in Methods, p \in ClientPaths,
          ps \in {None} \cup {Some(d) : d \in ParamDicts},
          fs \in {None} \cup {Some(d) : d \in FileDicts} :
            args = [prog |-> "client", method |-> m, path |-> p,
                    params |-> ps, files |-> fs]
    /\ pc = "start"
    /\ calls = <<>>
    /\ locals = [none |-> TRUE]
    /\ stdout = <<>>
    /\ stderr = <<>>
    /\ exit_status = None

ClientCall ==
    /\ args.prog = "client"
    /\ pc = "start"
    /\ \E b \in Boundaries :
          calls' = Append(calls, NewCall(args.path, args.params, args.method,
                                         args.files, b))
    /\ pc' = IF calls'[Len(calls')].state = "pending" THEN "wait" ELSE "done"
    /\ UNCHANGED <<environ, args, locals, stdout, stderr, exit_status>>

ClientReturn ==
    /\ args.prog = "client"
    /\ pc = "wait"
    /\ Pending
    /\ \E o \in Failures \cup Success(GenericBodies) :
          calls' = SetLast(FinishCall(LastCall, o))
    /\ pc' = "done"
    /\ UNCHANGED <<environ, args, locals, stdout, stderr, exit_status>>

NextClient == ClientCall \/ ClientReturn

SpecClient == InitClient /\ [][NextClient]_vars

\* ------------------------------------------------------- script plumbing
\* print(err, file=sys.stderr); sys.exit(1) of an except clause that catches
\* the classes in caught; any other exception leaves main() and the
\* interpreter prints the traceback and exits with status 1
\* (variant: the message is printed without file=sys.stderr)
ExitOnError_to_stdout(res, caught) ==
    /\ stdout' = Append(stdout,
                        IF res.exc \in caught THEN res.message
                        ELSE <<"Traceback (most recent call last):", res.exc>>)
    /\ exit_status' = Some(1)
    /\ pc' = "done"
    /\ UNCHANGED <<stderr, locals>>

ExitOnError(res, caught) ==
    /\ stderr' = Append(stderr,
                        IF res.exc \in caught THEN res.message
                        ELSE <<"Traceback (most recent call last):", res.exc>>)
    /\ exit_status' = Some(1)
    /\ pc' = "done"
    /\ UNCHANGED <<stdout, locals>>

CardIds == { <<"abc123">> }
CardPath(card_id) == <<"/", "cards", "/">> \o card_id

\* ----------------------------------------------------------- manage_card.py
\* The files of the local filesystem, by expanded path
HomeDir == <<"/", "home", "/", "u">>
FileSystem ==
    { [path |-> <<"/", "tmp", "/", "a.txt">>, data |-> <<"hello">>],
      [path |-> <<"/", "home", "/", "u", "/", "notes">>, data |-> <<"n1", CRLF, "n2">>] }

AttachmentArgs ==
    { <<"/", "tmp", "/", "a.txt">>,
      <<"~", "/", "notes">>,
      <<"/", "tmp", "/", "missing.txt">> }

\* Path.expanduser
ExpandUser(p) == IF p # <<>> /\ p[1] = "~" THEN HomeDir \o Tail(p) ELSE p
\* Path.is_file
IsFile(p) == \E f \in FileSystem : f.path = p
\* Path.read_bytes
ReadBytes(p) == (CHOOSE f \in FileSystem : f.path = p).data
\* Path.name
PathName(p) == <<p[Len(p)]>>

\* mimetypes.guess_type(name)[0] or "application/octet-stream"
guess_content_type(p) ==
    LET guessed == IF PathName(p) = <<"a.txt">> THEN Some(<<"text/plain">>)
                   ELSE IF PathName(p) = <<"missing.txt">> THEN Some(<<"text/plain">>)
                   ELSE None
    IN IF guessed = None THEN <<"application/octet-stream">> ELSE guessed[1]

\* (variant: each validated path is put in front of the list)
RECURSIVE validate_attachments_prepend(_)
validate_attachments_prepend(paths) ==
    IF paths = <<>> THEN Return(<<>>)
    ELSE LET path == ExpandUser(paths[1])
         IN IF ~IsFile(path)
            THEN Raise("FileNotFoundError",
                       <<"Attachment not found or not a file: ">> \o paths[1])
            ELSE LET rest == validate_attachments_prepend(Tail(paths))
                 IN IF rest.raised THEN rest
                    ELSE Return(rest.value \o <<path>>)

\* (variant: a path that is no file is left out instead of refused)
RECURSIVE validate_attachments_skip_missing(_)
validate_attachments_skip_missing(paths) ==
    IF paths = <<>> THEN Return(<<>>)
    ELSE LET path == ExpandUser(paths[1])
             rest == validate_attachments_skip_missing(Tail(paths))
         IN IF ~IsFile(path) THEN rest
            ELSE Return(<<path>> \o rest.value)

\* returns the list of expanded paths, or raises at the first that is no file
RECURSIVE validate_attachments(_)
validate_attachments(paths) ==
    IF paths = <<>> THEN Return(<<>>)
    ELSE LET path == ExpandUser(paths[1])
         IN IF ~IsFile(path)
            THEN Raise("FileNotFoundError",
                       <<"Attachment not found or not a file: ">> \o paths[1])
            ELSE LET rest == validate_attachments(Tail(paths))
                 IN IF rest.raised THEN rest
                    ELSE Return(<<path>> \o rest.value)

add_comment(card_id, text, boundary) ==
    trello_post(CardPath(card_id) \o <<"/", "actions", "/", "comments">>,
                Some(<< <<(<<"text">>), text>> >>), None, boundary)

upload_attachment(card_id, path, boundary) ==
    LET payload == << <<(<<"name">>), PathName(path)>> >>
        files == << <<(<<"file">>),
                      <<PathName(path), ReadBytes(path), guess_content_type(path)>> >> >>
    IN trello_post(CardPath(card_id) \o <<"/", "attachments">>,
                   Some(payload), Some(files), boundary)

mark_complete(card_id, boundary) ==
    trello_put(CardPath(card_id), Some(<< <<(<<"dueComplete">>), (<<"true">>)>> >>),
               None, boundary)

\* Sequences of 1..n attachment arguments
RECURSIVE PathLists(_)
PathLists(n) ==
    IF n = 0 THEN {<<>>}
    ELSE PathLists(n - 1) \cup
         { Append(l, a) : <<l, a>> \in PathLists(n - 1) \X AttachmentArgs }

InitManage ==
    /\ environ \in Environments
    /\ \E card \in CardIds,
          comment \in {None, Some(<<>>), Some(<<"looks", " ", "good">>)},
          attachment \in {None} \cup {Some(l) : l \in PathLists(MaxAttachments) \ {<<>>}},
          complete \in BOOLEAN :
            args = [prog |-> "manage_card", card |-> card, comment |-> comment,
                    attachment |-> attachment, complete |-> complete]
    /\ pc = "start"
    /\ calls = <<>>
    /\ locals = [actions_performed |-> <<>>, paths |-> <<>>, i |-> 1]
    /\ stdout = <<>>
    /\ stderr = <<>>
    /\ exit_status = None

ManageErrors == {"TrelloError", "FileNotFoundError"}

\* main(): the "at least one action" check
ManageStart ==
    /\ args.prog = "manage_card"
    /\ pc = "start"
    /\ IF ~(~Falsy(args.comment) \/ ~Falsy(args.attachment) \/ args.complete)
       THEN /\ stderr' = Append(stderr,
                   <<"Specify at least one action: --comment, --attachment, or --complete.">>)
            /\ exit_status' = Some(1)
            /\ pc' = "done"
       ELSE /\ pc' = "comment"
            /\ UNCHANGED <<stderr, exit_status>>
    /\ UNCHANGED <<environ, args, calls, locals, stdout>>

\* if args.comment: add_comment(...), up to the request being sent
ManageComment ==
    /\ args.prog = "manage_card"
    /\ pc = "comment"
    /\ ~Pending
    /\ IF Falsy(args.comment)
       THEN /\ pc' = "attachments"
            /\ UNCHANGED <<calls, locals, stdout, stderr, exit_status>>
       ELSE \E b \in Boundaries :
              LET c == add_comment(args.card, args.comment[1], b)
              IN /\ calls' = Append(calls, c)
                 /\ IF c.state = "raised"
                    THEN ExitOnError(c.result, ManageErrors)
                    ELSE UNCHANGED <<pc, locals, stdout, stderr, exit_status>>
    /\ UNCHANGED <<environ, args>>

\* the comment request's exchange ends
ManageCommentReturned ==
    /\ args.prog = "manage_card"
    /\ pc = "comment"
    /\ Pending
    /\ \E o \in Failures \cup Success(GenericBodies) :
          LET c == FinishCall(LastCall, o)
          IN /\ calls' = SetLast(c)
             /\ IF c.state = "raised"
                THEN ExitOnError(c.result, ManageErrors)
                ELSE /\ locals' = [locals EXCEPT !.actions_performed =
                                       Append(@, <<"Comment added.">>)]
                     /\ pc' = "attachments"
                     /\ UNCHANGED <<stdout, stderr, exit_status>>
    /\ UNCHANGED <<environ, args>>

\* if args.attachment: paths = validate_attachments(args.attachment)
ManageValidate ==
    /\ args.prog = "manage_card"
    /\ pc = "attachments"
    /\ IF Falsy(args.attachment)
       THEN /\ pc' = "complete"
            /\ UNCHANGED <<locals, stdout, stderr, exit_status>>
       ELSE LET v == validate_attachments(args.attachment[1])
            IN IF v.raised
               THEN ExitOnError(v, ManageErrors)
               ELSE /\ locals' = [locals EXCEPT !.paths = v.value, !.i = 1]
                    /\ pc' = IF v.value = <<>> THEN "complete" ELSE "upload"
                    /\ UNCHANGED <<stdout, stderr, exit_status>>
    /\ UNCHANGED <<environ, args, calls>>

\* for path in paths: upload_attachment(...), up to the request being sent
ManageUpload ==
    /\ args.prog = "manage_card"
    /\ pc = "upload"
    /\ ~Pending
    /\ \E b \in Boundaries :
          LET c == upload_attachment(args.card, locals.paths[locals.i], b)
          IN /\ calls' = Append(calls, c)
             /\ IF c.state = "raised"
                THEN ExitOnError(c.result, ManageErrors)
                ELSE UNCHANGED <<pc, locals, stdout, stderr, exit_status>>
    /\ UNCHANGED <<environ, args>>

\* an upload's exchange ends
ManageUploadReturned ==
    /\ args.prog = "manage_card"
    /\ pc = "upload"
    /\ Pending
    /\ \E o \in Failures \cup Success(GenericBodies) :
          LET c == FinishCall(LastCall, o)
          IN /\ calls' = SetLast(c)
             /\ IF c.state = "raised"
                THEN ExitOnError(c.result, ManageErrors)
                ELSE /\ locals' = [locals EXCEPT
                            !.actions_performed =
                                Append(@, <<"Uploaded ">>
                                          \o PathName(locals.paths[locals.i]) \o <<".">>),
                            !.i = @ + 1]
                     /\ pc' = IF locals.i = Len(locals.paths) THEN "complete" ELSE "upload"
                     /\ UNCHANGED <<stdout, stderr, exit_status>>
    /\ UNCHANGED <<environ, args>>

\* if args.complete: mark_complete(...), up to the request being sent
ManageComplete ==
    /\ args.prog = "manage_card"
    /\ pc = "complete"
    /\ ~Pending
    /\ IF ~args.complete
       THEN /\ pc' = "report"
            /\ UNCHANGED <<calls, locals, stdout, stderr, exit_status>>
       ELSE \E b \in Boundaries :
              LET c == mark_complete(args.card, b)
              IN /\ calls' = Append(calls, c)
                 /\ IF c.state = "raised"
                    THEN ExitOnError(c.result, ManageErrors)
                    ELSE UNCHANGED <<pc, locals, stdout, stderr, exit_status>>
    /\ UNCHANGED <<environ, args>>

\* the mark-complete request's exchange ends
ManageCompleteReturned ==
    /\ args.prog = "manage_card"
    /\ pc = "complete"
    /\ Pending
    /\ \E o \in Failures \cup Success(GenericBodies) :
          LET c == FinishCall(LastCall, o)
          IN /\ calls' = SetLast(c)
             /\ IF c.state = "raised"
                THEN ExitOnError(c.result, ManageErrors)
                ELSE /\ locals' = [locals EXCEPT !.actions_performed =
                                       Append(@, <<"Card marked complete.">>)]
                     /\ pc' = "report"
                     /\ UNCHANGED <<stdout, stderr, exit_status>>
    /\ UNCHANGED <<environ, args>>

\* for action in actions_performed: print(f"- {action}"), then main() returns
ManageReport ==
    /\ args.prog = "manage_card"
    /\ pc = "report"
    /\ stdout' = stdout \o [k \in 1..Len(locals.actions_performed) |->
                               <<"- ">> \o locals.actions_performed[k]]
    /\ exit_status' = Some(0)
    /\ pc' = "done"
    /\ UNCHANGED <<environ, args, calls, locals, stderr>>

NextManage ==
    \/ ManageStart
    \/ ManageComment
    \/ ManageCommentReturned
    \/ ManageValidate
    \/ ManageUpload
    \/ ManageUploadReturned
    \/ ManageComplete
    \/ ManageCompleteReturned
    \/ ManageReport

\* ------------------------------------------------------------ fetch_card.py
\* ",".join(items)
RECURSIVE Join(_, _)
Join(sep, items) ==
    IF items = <<>> THEN <<>>
    ELSE IF Len(items) = 1 THEN items[1]
    ELSE items[1] \o <<sep>> \o Join(sep, Tail(items))

Words(names) == [k \in 1..Len(names) |-> <<names[k]>>]

load_card(card_id, action_limit, boundary) ==
    LET params ==
          << <<(<<"fields">>),
               Join(",", Words(<<"name", "desc", "due", "dueComplete", "shortUrl",
                                 "shortLink", "dateLastActivity", "badges", "idBoard",
                                 "idList", "customFieldItems">>))>>,
             <<(<<"attachments">>), (<<"true">>)>>,
             <<(<<"attachment_fields">>),
               Join(",", Words(<<"name", "url", "downloadUrl", "bytes", "date",
                                 "edgeColor", "mimeType", "isUpload">>))>>,
             <<(<<"labels">>), (<<"true">>)>>,
             <<(<<"label_fields">>), (<<"name", ",", "color">>)>>,
             <<(<<"members">>), (<<"true">>)>>,
             <<(<<"member_fields">>), (<<"fullName", ",", "username">>)>>,
             <<(<<"actions">>), (<<"commentCard">>)>>,
             <<(<<"actions_limit">>), (<<ToString(action_limit)>>)>>,
             <<(<<"actions_fields">>),
               (<<"id", ",", "date", ",", "memberCreator", ",", "data">>)>> >>
    IN trello_get(CardPath(card_id), Some(params), boundary)

CardBodies ==
    { [id |-> <<"c1">>, name |-> <<"Fix", " ", "login">>, shortUrl |-> <<"https://trello.com/c/abc123">>],
      [id |-> <<"c2">>, name |-> <<>>, shortUrl |-> <<"https://trello.com/c/xyz789">>] }

InitFetch ==
    /\ environ \in Environments
    /\ \E card \in CardIds, fmt \in {"markdown", "json"}, limit \in {100, 5} :
            args = [prog |-> "fetch_card", card_id |-> card, format |-> fmt,
                    actions_limit |-> limit]
    /\ pc = "load"
    /\ calls = <<>>
    /\ locals = [card |-> None]
    /\ stdout = <<>>
    /\ stderr = <<>>
    /\ exit_status = None

\* card = load_card(...), up to the request being sent
FetchLoad ==
    /\ args.prog = "fetch_card"
    /\ pc = "load"
    /\ ~Pending
    /\ \E b \in Boundaries :
          LET c == load_card(args.card_id, args.actions_limit, b)
          IN /\ calls' = Append(calls, c)
             /\ IF c.state = "raised"
                THEN ExitOnError(c.result, {"TrelloError"})
                ELSE UNCHANGED <<pc, locals, stdout, stderr, exit_status>>
    /\ UNCHANGED <<environ, args>>

\* the exchange ends; the card is printed in the requested format.  What is
\* printed is recorded as the rendering applied and the value rendered
FetchReturned ==
    /\ args.prog = "fetch_card"
    /\ pc = "load"
    /\ Pending
    /\ \E o \in Failures \cup Success(CardBodies) :
          LET c == FinishCall(LastCall, o)
          IN /\ calls' = SetLast(c)
             /\ IF c.state = "raised"
                THEN ExitOnError(c.result, {"TrelloError"})
                ELSE /\ locals' = [locals EXCEPT !.card = Some(c.result.value)]
                     /\ stdout' = Append(stdout,
                            [render |-> IF args.format = "json" THEN "json.dumps"
                                        ELSE "markdown_summary",
                             of |-> <<c.result.value>>])
                     /\ exit_status' = Some(0)
                     /\ pc' = "done"
                     /\ UNCHANGED stderr
    /\ UNCHANGED <<environ, args>>

NextFetch == FetchLoad \/ FetchReturned

\* ----------------------------------------------------------- create_card.py
\* str.lower() on the list names of the model
LowerAtom(a) ==
    CASE a = "ToDo" -> "todo"
      [] a = "Doing" -> "doing"
      [] a = "TODO" -> "todo"
      [] OTHER -> a
Lower(t) == [k \in 1..Len(t) |-> LowerAtom(t[k])]

BoardBodies == { [id |-> <<"5f0board">>, name |-> <<"Work">>, shortLink |-> <<"bSL">>] }

ListBodies ==
    { <<>>,
      << [id |-> <<"L1">>, name |-> <<"ToDo", " ">>],
         [id |-> <<"L2">>, name |-> <<"Doing">>] >> }

\* the candidate resolve_list returns for list_ref, or the error it raises
RECURSIVE MatchList(_, _, _)
MatchList(candidates, list_ref, board_id) ==
    IF candidates = <<>>
    THEN Raise("TrelloError",
               <<"Cannot find list ", DQUOTE>> \o list_ref \o <<DQUOTE, " on board ">>
                   \o board_id \o <<".">>)
    ELSE LET candidate == candidates[1]
             normalized == Lower(Strip(list_ref))
         IN IF candidate.id = list_ref THEN Return(candidate)
            ELSE IF Lower(Strip(candidate.name)) = normalized THEN Return(candidate)
            ELSE MatchList(Tail(candidates), list_ref, board_id)

\* the payload main() builds for POST /cards
CardPayload(list_info) ==
    LET base == << <<(<<"name">>), Strip(args.name)>>,
                   <<(<<"idList">>), list_info.id>>,
                   <<(<<"desc">>), args.desc>>,
                   <<(<<"pos">>), args.pos>> >>
        due == IF Falsy(args.due) THEN base
               ELSE DictSet(base, <<"due">>, args.due[1])
        labels == IF Falsy(args.label_ids) THEN due
                  ELSE DictSet(due, <<"idLabels">>, Join(",", args.label_ids[1]))
        members == IF Falsy(args.member_ids) THEN labels
                   ELSE DictSet(labels, <<"idMembers">>, Join(",", args.member_ids[1]))
    IN IF Falsy(args.url_source) THEN members
       ELSE DictSet(members, <<"urlSource">>, args.url_source[1])

InitCreate ==
    /\ environ \in Environments
    /\ \E list_ref \in { <<"L2">>, <<" ", "TODO">>, <<"Backlog">> },
          due \in {None, Some(<<"2026-01-01">>)},
          label_ids \in {None, Some(<< <<"lab1">>, <<"lab2">> >>)},
          fmt \in {"summary", "json"} :
            args = [prog |-> "create_card", board |-> <<"bSL">>, list_ref |-> list_ref,
                    name |-> <<" ", "Fix", " ", "login", " ">>, desc |-> <<>>,
                    due |-> due, pos |-> <<"bottom">>, label_ids |-> label_ids,
                    member_ids |-> None,
                    url_source |-> IF due = None THEN None
                                   ELSE Some(<<"https", ":", "/", "/", "example.com">>),
                    format |-> fmt]
    /\ pc = "board"
    /\ calls = <<>>
    /\ locals = [board |-> None, list_info |-> None]
    /\ stdout = <<>>
    /\ stderr = <<>>
    /\ exit_status = None

\* board = trello_get(f"/boards/{args.board}", ...), up to the request sent
CreateGetBoard ==
    /\ args.prog = "create_card"
    /\ pc = "board"
    /\ ~Pending
    /\ \E b \in Boundaries :
          LET c == trello_get(<<"/", "boards", "/">> \o args.board,
                              Some(<< <<(<<"fields">>),
                                        (<<"id", ",", "name", ",", "shortLink">>)>> >>), b)
          IN /\ calls' = Append(calls, c)
             /\ IF c.state = "raised"
                THEN ExitOnError(c.result, {"TrelloError"})
                ELSE UNCHANGED <<pc, locals, stdout, stderr, exit_status>>
    /\ UNCHANGED <<environ, args>>

CreateBoardReturned ==
    /\ args.prog = "create_card"
    /\ pc = "board"
    /\ Pending
    /\ \E o \in Failures \cup Success(BoardBodies) :
          LET c == FinishCall(LastCall, o)
          IN /\ calls' = SetLast(c)
             /\ IF c.state = "raised"
                THEN ExitOnError(c.result, {"TrelloError"})
                ELSE /\ locals' = [locals EXCEPT !.board = Some(c.result.value)]
                     /\ pc' = "lists"
                     /\ UNCHANGED <<stdout, stderr, exit_status>>
    /\ UNCHANGED <<environ, args>>

\* resolve_list: candidates = trello_get(f"/boards/{board_id}/lists", params)
CreateGetLists ==
    /\ args.prog = "create_card"
    /\ pc = "lists"
    /\ ~Pending
    /\ \E b \in Boundaries :
          LET c == trello_get(<<"/", "boards", "/">> \o locals.board[1].id
                                  \o <<"/", "lists">>,
                              Some(<< <<(<<"fields">>), (<<"id", ",", "name">>)>>,
                                      <<(<<"filter">>), (<<"open">>)>> >>), b)
          IN /\ calls' = Append(calls, c)
             /\ IF c.state = "raised"
                THEN ExitOnError(c.result, {"TrelloError"})
                ELSE UNCHANGED <<pc, locals, stdout, stderr, exit_status>>
    /\ UNCHANGED <<environ, args>>

\* resolve_list: the candidates arrive and are searched for list_ref
CreateListsReturned ==
    /\ args.prog = "create_card"
    /\ pc = "lists"
    /\ Pending
    /\ \E o \in Failures \cup Success(ListBodies) :
          LET c == FinishCall(LastCall, o)
              found == IF c.state = "raised" THEN c.result
                       ELSE MatchList(c.result.value, args.list_ref, locals.board[1].id)
          IN /\ calls' = SetLast(c)
             /\ IF found.raised
                THEN ExitOnError(found, {"TrelloError"})
                ELSE /\ locals' = [locals EXCEPT !.list_info = Some(found.value)]
                     /\ pc' = "post"
                     /\ UNCHANGED <<stdout, stderr, exit_status>>
    /\ UNCHANGED <<environ, args>>

\* card = trello_post("/cards", payload), up to the request sent
CreatePostCard ==
    /\ args.prog = "create_card"
    /\ pc = "post"
    /\ ~Pending
    /\ \E b \in Boundaries :
          LET c == trello_post(<<"/", "cards">>,
                               Some(CardPayload(locals.list_info[1])), None, b)
          IN /\ calls' = Append(calls, c)
             /\ IF c.state = "raised"
                THEN ExitOnError(c.result, {"TrelloError"})
                ELSE UNCHANGED <<pc, locals, stdout, stderr, exit_status>>
    /\ UNCHANGED <<environ, args>>

\* the card arrives and is printed in the requested format
CreateCardReturned ==
    /\ args.prog = "create_card"
    /\ pc = "post"
    /\ Pending
    /\ \E o \in Failures \cup Success(CardBodies) :
          LET c == FinishCall(LastCall, o)
          IN /\ calls' = SetLast(c)
             /\ IF c.state = "raised"
                THEN ExitOnError(c.result, {"TrelloError"})
                ELSE /\ stdout' = Append(stdout,
                            IF args.format = "json"
                            THEN [render |-> "json.dumps", of |-> <<c.result.value>>]
                            ELSE [render |-> "summarize_card",
                                  of |-> <<c.result.value, locals.board[1],
                                           locals.list_info[1]>>])
                     /\ exit_status' = Some(0)
                     /\ pc' = "done"
                     /\ UNCHANGED <<locals, stderr>>
    /\ UNCHANGED <<environ, args>>

NextCreate ==
    \/ CreateGetBoard
    \/ CreateBoardReturned
    \/ CreateGetLists
    \/ CreateListsReturned
    \/ CreatePostCard
    \/ CreateCardReturned

\* ------------------------------------------------------------ specifications
\* One run of one of the three scripts
Init == InitManage \/ InitFetch \/ InitCreate

Next == NextManage \/ NextFetch \/ NextCreate

Spec == Init /\ [][Next]_vars

\* ================================================================== claims
\* Decoding helpers: what a form-decoding receiver reads back from a query
\* string or body (urllib.parse.parse_qsl)
UnquoteAtom(a) ==
    CASE a = "+" -> " "
      [] a = "%26" -> "&"
      [] a = "%3D" -> "="
      [] a = "%2C" -> ","
      [] a = "%2F" -> "/"
      [] a = "%3A" -> ":"
      [] a = "%3F" -> "?"
      [] a = "%2B" -> "+"
      [] a = "%25" -> "%"
      [] OTHER -> a

Unquote(t) == [k \in 1..Len(t) |-> UnquoteAtom(t[k])]

\* index of the first atom a in t, 0 when there is none
IndexOf(t, a) ==
    IF \E k \in 1..Len(t) : t[k] = a
    THEN CHOOSE k \in 1..Len(t) : t[k] = a /\ \A j \in 1..(k - 1) : t[j] # a
    ELSE 0

RECURSIVE SplitAt(_, _)
SplitAt(t, a) ==
    LET k == IndexOf(t, a)
    IN IF k = 0 THEN <<t>>
       ELSE <<SubSeq(t, 1, k - 1)>> \o SplitAt(SubSeq(t, k + 1, Len(t)), a)

ParsePair(t) ==
    LET k == IndexOf(t, "=")
    IN IF k = 0 THEN <<Unquote(t), <<>> >>
       ELSE <<Unquote(SubSeq(t, 1, k - 1)), Unquote(SubSeq(t, k + 1, Len(t)))>>

ParseQs(t) ==
    IF t = <<>> THEN <<>>
    ELSE LET pieces == SplitAt(t, "&")
         IN [k \in 1..Len(pieces) |-> ParsePair(pieces[k])]

AfterFirst(t, a) ==
    LET k == IndexOf(t, a) IN IF k = 0 THEN <<>> ELSE SubSeq(t, k + 1, Len(t))

\* values a decoded mapping holds under name, in order
ValuesOf(d, name) ==
    LET idx == {k \in 1..Len(d) : d[k][1] = name}
    IN {d[k][2] : k \in idx}
CountOf(d, name) == Cardinality({k \in 1..Len(d) : d[k][1] = name})

KeyConfigured == environ["TRELLO_API_KEY"] # None /\ environ["TRELLO_API_KEY"][1] # <<>>
TokenConfigured == environ["TRELLO_TOKEN"] # None /\ environ["TRELLO_TOKEN"][1] # <<>>
ExpectedScope ==
    IF environ["TRELLO_AUTH_SCOPE"] = None THEN <<"read", ",", "write">>
    ELSE environ["TRELLO_AUTH_SCOPE"][1]

\* msg carries the authorization URL for key: https://trello.com/1/authorize
\* followed by a query giving key, scope, expiration=never, response_type=token
HasAuthorizationUrl(msg, key) ==
    \E k \in 1..(Len(msg) - 9) :
        /\ SubSeq(msg, k, k + 9) =
               <<"https", ":", "/", "/", "trello.com", "/", "1", "/", "authorize", "?">>
        /\ LET q == ParseQs(SubSeq(msg, k + 10, Len(msg)))
           IN /\ ValuesOf(q, <<"key">>) = {key}
              /\ ValuesOf(q, <<"scope">>) = {ExpectedScope}
              /\ ValuesOf(q, <<"expiration">>) = {<<"never">>}
              /\ ValuesOf(q, <<"response_type">>) = {<<"token">>}

\* C1: a call with the API key absent or empty fails with TrelloError saying
\* the key is not configured; otherwise a call with the token absent or empty
\* fails with TrelloError whose message carries the authorization URL built
\* from the key; in both cases the call issues no request.
C1_MissingCredentialsFailFast ==
    \A i \in 1..Len(calls) :
        LET c == calls[i]
        IN /\ ~KeyConfigured =>
                /\ c.state = "raised"
                /\ c.result.exc = "TrelloError"
                /\ c.result.message =
                     <<"TRELLO_API_KEY is not configured. Export it before running the helper.">>
                /\ c.requests = <<>>
           /\ (KeyConfigured /\ ~TokenConfigured) =>
                /\ c.state = "raised"
                /\ c.result.exc = "TrelloError"
                /\ HasAuthorizationUrl(c.result.message, environ["TRELLO_API_KEY"][1])
                /\ c.requests = <<>>

C1_Witness ==
    /\ calls # <<>>
    /\ environ["TRELLO_API_KEY"] = Some(KeyText)
    /\ environ["TRELLO_TOKEN"] = Some(<<>>)
    /\ args.files # None
    /\ LastCall.state = "raised"

\* ------------------------------------------------- multipart decoding
\* the elements of a set of integers in increasing order
RECURSIVE Sorted(_)
Sorted(S) ==
    IF S = {} THEN <<>>
    ELSE LET m == CHOOSE x \in S : \A y \in S : x <= y
         IN <<m>> \o Sorted(S \ {m})

DelimiterStarts(body, b) ==
    {k \in 1..(Len(body) - 2) : SubSeq(body, k, k + 2) = <<"--", b, CRLF>>}

\* the parts of a body that ends with a 4-atom closing marker: what stands
\* between one delimiter and the next (or the closing marker)
MultipartParts(body, b) ==
    LET starts == Sorted(DelimiterStarts(body, b))
    IN [k \in 1..Len(starts) |->
          SubSeq(body, starts[k] + 3,
                 IF k < Len(starts) THEN starts[k + 1] - 1 ELSE Len(body) - 4)]

\* a part is: Content-Disposition: form-data; name="<name>" ...
PartNameEnd(p) == 2 + IndexOf(SubSeq(p, 3, Len(p)), DQUOTE)
PartName(p) == SubSeq(p, 3, PartNameEnd(p) - 1)
PartWellFormed(p) ==
    /\ Len(p) >= 4
    /\ p[1] = "Content-Disposition: form-data; name="
    /\ p[2] = DQUOTE
    /\ PartNameEnd(p) > 2
    /\ p[Len(p)] = CRLF
PartIsFile(p) == Len(p) > PartNameEnd(p) /\ p[PartNameEnd(p) + 1] = "; filename="
\* a scalar part's value: after the blank line, before the final CRLF
PartValue(p) == SubSeq(p, PartNameEnd(p) + 3, Len(p) - 1)
\* a file part's filename and content type
PartFilename(p) ==
    LET rest == SubSeq(p, PartNameEnd(p) + 3, Len(p))
    IN SubSeq(rest, 1, IndexOf(rest, DQUOTE) - 1)
PartContentType(p) ==
    LET k == IndexOf(p, "Content-Type: ")
        rest == SubSeq(p, k + 1, Len(p))
    IN IF k = 0 THEN <<>> ELSE SubSeq(rest, 1, IndexOf(rest, CRLF) - 1)

IsMultipart(r) ==
    /\ r.headers # <<>>
    /\ r.headers[1][1] = "Content-Type"
    /\ r.headers[1][2][1] = "multipart/form-data; boundary="
DeclaredBoundary(r) == r.headers[1][2][2]

IsGet(c) == c.method \in {"GET", "get"}
HasFiles(c) == c.files # None /\ c.files[1] # <<>>
CallerParams(c) == IF c.params = None THEN <<>> ELSE c.params[1]

\* the name/value pairs a receiver decodes from request r
SentParams(r) ==
    IF r.data = None THEN ParseQs(AfterFirst(r.url, "?"))
    ELSE IF IsMultipart(r)
    THEN LET parts == MultipartParts(r.data[1], DeclaredBoundary(r))
             scalar == Sorted({k \in 1..Len(parts) : ~PartIsFile(parts[k])})
         IN [k \in 1..Len(scalar) |->
                <<PartName(parts[scalar[k]]), PartValue(parts[scalar[k]])>>]
    ELSE ParseQs(r.data[1])

\* C2: every request issued carries exactly one key and one token parameter,
\* equal to the configured credentials whatever the caller's mapping holds;
\* a GET request has no body and carries them and every other caller
\* parameter in its query string; any other request carries them in its body
\* and nothing in a query string.
C2_RequestsCarryCredentials ==
    \A i \in 1..Len(calls) : \A j \in 1..Len(calls[i].requests) :
        LET c == calls[i]
            r == c.requests[j]
            sent == SentParams(r)
        IN /\ ValuesOf(sent, <<"key">>) = {environ["TRELLO_API_KEY"][1]}
           /\ CountOf(sent, <<"key">>) = 1
           /\ ValuesOf(sent, <<"token">>) = {environ["TRELLO_TOKEN"][1]}
           /\ CountOf(sent, <<"token">>) = 1
           /\ IsGet(c) =>
                /\ r.method = "GET"
                /\ r.data = None
                /\ IndexOf(r.url, "?") > 0
                /\ \A k \in 1..Len(CallerParams(c)) :
                      CallerParams(c)[k][1] \notin {<<"key">>, <<"token">>}
                          => ValuesOf(sent, CallerParams(c)[k][1]) = {CallerParams(c)[k][2]}
           /\ ~IsGet(c) =>
                /\ r.data # None
                /\ IndexOf(r.url, "?") = 0

C2_Witness ==
    /\ calls # <<>>
    /\ LastCall.requests # <<>>
    /\ IsGet(LastCall)
    /\ LastCall.params # None
    /\ \E k \in 1..Len(LastCall.params[1]) :
          LastCall.params[1][k] = <<(<<"key">>), (<<"other">>)>>

\* the caller's mapping with the configured credentials put in: a key or
\* token entry of the caller is overwritten where it stands, a missing one is
\* added at the end, key before token
WithCredentials(d) ==
    LET k == environ["TRELLO_API_KEY"][1]
        t == environ["TRELLO_TOKEN"][1]
        over == [n \in 1..Len(d) |->
                    IF d[n][1] = <<"key">> THEN <<(<<"key">>), k>>
                    ELSE IF d[n][1] = <<"token">> THEN <<(<<"token">>), t>>
                    ELSE d[n]]
    IN over \o (IF CountOf(d, <<"key">>) = 0 THEN << <<(<<"key">>), k>> >> ELSE <<>>)
            \o (IF CountOf(d, <<"token">>) = 0 THEN << <<(<<"token">>), t>> >> ELSE <<>>)

FormHeader == << <<"Content-Type", <<"application/x-www-form-urlencoded">> >> >>

\* C3 as stated: the body of a non-GET call without files decodes to exactly
\* the parameters the caller passed (POST /cards {name: Test, idList: abc}
\* gives name=Test&idList=abc), with the form content type.
C3_BodyIsCallerParamsOnly ==
    \A i \in 1..Len(calls) :
        LET c == calls[i]
        IN (~IsGet(c) /\ ~HasFiles(c) /\ c.requests # <<>>) =>
              /\ ParseQs(c.requests[1].data[1]) = CallerParams(c)
              /\ c.requests[1].headers = FormHeader
              /\ CallerParams(c) = << <<(<<"name">>), (<<"Test">>)>>,
                                      <<(<<"idList">>), (<<"abc">>)>> >>
                    => c.requests[1].data[1] =
                         <<"name", "=", "Test", "&", "idList", "=", "abc">>

\* C3 (amended): the body of a non-GET call without files decodes to exactly
\* the caller's parameters with the configured key and token put in, and the
\* content type is application/x-www-form-urlencoded; POST /cards with
\* {name: Test, idList: abc} gives name=Test&idList=abc&key=<key>&token=<token>.
C3_BodyIsParamsWithCredentials ==
    \A i \in 1..Len(calls) :
        LET c == calls[i]
        IN (~IsGet(c) /\ ~HasFiles(c) /\ c.requests # <<>>) =>
              /\ ParseQs(c.requests[1].data[1]) = WithCredentials(CallerParams(c))
              /\ c.requests[1].headers = FormHeader
              /\ CallerParams(c) = << <<(<<"name">>), (<<"Test">>)>>,
                                      <<(<<"idList">>), (<<"abc">>)>> >>
                    => c.requests[1].data[1] =
                         <<"name", "=", "Test", "&", "idList", "=", "abc", "&",
                           "key", "=", "k3y", "&", "token", "=", "t0k", "%2F", "en">>

C3_Witness ==
    /\ calls # <<>>
    /\ LastCall.method = "POST"
    /\ LastCall.files = None
    /\ LastCall.requests # <<>>
    /\ LastCall.params = Some(<< <<(<<"name">>), (<<"Test">>)>>,
                                 <<(<<"idList">>), (<<"abc">>)>> >>)

\* C4 as stated: every call whose exchange was attempted ends either by
\* returning the decoded JSON value or by failing with TrelloError, whatever
\* the exchange did (JSON body, body that is not JSON, HTTP error status,
\* connection failure, timeout while connecting or while reading).
C4_OnlyJsonOrTrelloError ==
    \A i \in 1..Len(calls) :
        LET c == calls[i]
        IN (c.requests # <<>> /\ c.state # "pending") =>
              \/ /\ c.state = "returned"
                 /\ c.exchange[1].kind = "json"
                 /\ c.result.value = c.exchange[1].body[1]
              \/ /\ c.state = "raised"
                 /\ c.result.exc = "TrelloError"

\* C5 as stated: an HTTP error status gives a TrelloError whose message holds
\* the status code, the request URL and the reason phrase, with the
\* authorization URL if and only if the status is 401 or 403, and never the
\* "unable to reach" wording; a transport failure gives a TrelloError with
\* the "unable to reach" wording and never the HTTP-status wording.
C5_ErrorMappingByClass ==
    \A i \in 1..Len(calls) :
        LET c == calls[i]
            o == c.exchange[1]
            msg == c.result.message
        IN c.exchange # None =>
              /\ o.kind = "http_error" =>
                    /\ c.state = "raised"
                    /\ c.result.exc = "TrelloError"
                    /\ Contains(msg, <<"HTTP ", ToString(o.code)>>)
                    /\ Contains(msg, c.requests[1].url)
                    /\ Contains(msg, o.reason)
                    /\ HasAuthorizationUrl(msg, environ["TRELLO_API_KEY"][1])
                          <=> o.code \in {401, 403}
                    /\ ~Contains(msg, <<"Unable to reach Trello: ">>)
              /\ o.kind \in {"url_error", "read_timeout"} =>
                    /\ c.state = "raised"
                    /\ c.result.exc = "TrelloError"
                    /\ Contains(msg, <<"Unable to reach Trello: ">>)
                    /\ ~Contains(msg, <<"HTTP ">>)

\* C6: a call issues exactly one request when both credentials are
\* configured and none otherwise, whatever the exchange does; a call whose
\* request failed has ended with an error, with no further request sent.
C6_NoRetries ==
    \A i \in 1..Len(calls) :
        LET c == calls[i]
        IN /\ Len(c.requests) = IF KeyConfigured /\ TokenConfigured THEN 1 ELSE 0
           /\ (c.exchange # None /\ c.exchange[1].kind # "json") => c.state = "raised"

C6_Witness ==
    /\ calls # <<>>
    /\ LastCall.exchange # None
    /\ LastCall.exchange[1].kind = "url_error"
    /\ LastCall.state = "raised"
    /\ Len(LastCall.requests) = 1

\* C10: the body of a non-GET call with files is multipart: it opens with a
\* delimiter, holds one part per scalar field (the caller's parameters with
\* key and token put in) followed by one part per file, in the order
\* supplied, each file part with its filename and content type, and ends
\* with the closing marker; delimiters, closing marker and the Content-Type
\* header all use one boundary token.
C10_MultipartBody ==
    \A i \in 1..Len(calls) :
        LET c == calls[i]
        IN (~IsGet(c) /\ HasFiles(c) /\ c.requests # <<>>) =>
              LET r == c.requests[1]
                  body == r.data[1]
                  b == DeclaredBoundary(r)
                  parts == MultipartParts(body, b)
                  fields == WithCredentials(CallerParams(c))
                  files == c.files[1]
                  nf == Len(fields)
              IN /\ IsMultipart(r)
                 /\ Len(r.headers) = 1
                 /\ Len(r.headers[1][2]) = 2
                 /\ EndsWith(body, <<"--", b, "--", CRLF>>)
                 /\ SubSeq(body, 1, 3) = <<"--", b, CRLF>>
                 /\ \A k \in 1..Len(body) : body[k] \in Boundaries => body[k] = b
                 /\ Len(parts) = nf + Len(files)
                 /\ \A k \in 1..Len(parts) : PartWellFormed(parts[k])
                 /\ \A k \in 1..nf :
                       /\ ~PartIsFile(parts[k])
                       /\ PartName(parts[k]) = fields[k][1]
                       /\ PartValue(parts[k]) = fields[k][2]
                 /\ \A k \in 1..Len(files) :
                       /\ PartIsFile(parts[nf + k])
                       /\ PartName(parts[nf + k]) = files[k][1]
                       /\ PartFilename(parts[nf + k]) = files[k][2][1]
                       /\ PartContentType(parts[nf + k]) = files[k][2][3]
                       /\ PartContentType(parts[nf + k]) # <<>>

C10_Witness ==
    /\ calls # <<>>
    /\ LastCall.requests # <<>>
    /\ ~IsGet(LastCall)
    /\ LastCall.files # None
    /\ Len(LastCall.files[1]) = 2
    /\ LastCall.params # None
    /\ Len(LastCall.params[1]) = 2

\* ---------------------------------------------------- manage_card claims
IsPrefix(a, b) == Len(a) <= Len(b) /\ SubSeq(b, 1, Len(a)) = a

\* what identifies a request: method, path below the base URL, and the
\* filenames of its file parts
RequestPath(r) ==
    LET u == IF r.data = None THEN SubSeq(r.url, 1, IndexOf(r.url, "?") - 1) ELSE r.url
    IN SubSeq(u, Len(BASE_URL) + 1, Len(u))
RequestFilenames(r) ==
    IF r.data # None /\ IsMultipart(r)
    THEN LET parts == MultipartParts(r.data[1], DeclaredBoundary(r))
             fileparts == Sorted({k \in 1..Len(parts) : PartIsFile(parts[k])})
         IN [k \in 1..Len(fileparts) |-> PartFilename(parts[fileparts[k]])]
    ELSE <<>>
Signature(r) == <<r.method, RequestPath(r), RequestFilenames(r)>>

\* the requests issued so far, in order
RECURSIVE IssuedFrom(_)
IssuedFrom(cs) ==
    IF cs = <<>> THEN <<>>
    ELSE [k \in 1..Len(cs[1].requests) |-> Signature(cs[1].requests[k])]
         \o IssuedFrom(Tail(cs))
Issued == IssuedFrom(calls)

CommentRequested == args.comment # None /\ args.comment[1] # <<>>
AttachmentsRequested == IF args.attachment = None THEN <<>> ELSE args.attachment[1]

\* the requests a manage_card command line asks for, in the documented order
ManagePlan ==
    (IF CommentRequested
     THEN << <<"POST", <<"/", "cards", "/">> \o args.card
                           \o <<"/", "actions", "/", "comments">>, <<>> >> >>
     ELSE <<>>)
    \o [k \in 1..Len(AttachmentsRequested) |->
          <<"POST", <<"/", "cards", "/">> \o args.card \o <<"/", "attachments">>,
            << <<AttachmentsRequested[k][Len(AttachmentsRequested[k])]>> >> >>]
    \o (IF args.complete
        THEN << <<"PUT", <<"/", "cards", "/">> \o args.card, <<>> >> >>
        ELSE <<>>)

\* one status line per action of the command line, in the documented order
ManageStatusLines ==
    (IF CommentRequested THEN << <<"- ", "Comment added.">> >> ELSE <<>>)
    \o [k \in 1..Len(AttachmentsRequested) |->
          <<"- ", "Uploaded ",
            AttachmentsRequested[k][Len(AttachmentsRequested[k])], ".">>]
    \o (IF args.complete THEN << <<"- ", "Card marked complete.">> >> ELSE <<>>)

\* C7: manage_card issues its requests in the order comment, attachments as
\* supplied, mark-complete; a failed step is the last thing it does (no
\* request follows a failed call or a failed validation); a run in which no
\* step fails issues the whole plan and prints one status line per action,
\* in that order.
C7_ManageOrderAndStop ==
    args.prog = "manage_card" =>
        /\ IsPrefix(Issued, ManagePlan)
        /\ \A i \in 1..(Len(calls) - 1) : calls[i].state = "returned"
        /\ (stderr # <<>> \/ (calls # <<>> /\ LastCall.state = "raised")) =>
              /\ pc = "done"
              /\ exit_status = Some(1)
        /\ exit_status = Some(0) =>
              /\ Issued = ManagePlan
              /\ stdout = ManageStatusLines

C7_Witness ==
    /\ args.prog = "manage_card"
    /\ exit_status = Some(0)
    /\ CommentRequested
    /\ args.complete
    /\ Len(AttachmentsRequested) = 2
    /\ AttachmentsRequested[1] # AttachmentsRequested[2]
    /\ Len(stdout) = 4

\* the status line of a successful manage_card call
StatusLineOf(c) ==
    LET sig == Signature(c.requests[1])
    IN IF sig[1] = "PUT" THEN <<"- ", "Card marked complete.">>
       ELSE IF sig[3] # <<>> THEN <<"- ", "Uploaded ">> \o sig[3][1] \o <<".">>
       ELSE <<"- ", "Comment added.">>

\* C8 as stated: when manage_card exits after a failure, the status line of
\* every step that had succeeded before has been printed.
C8_SuccessesReportedOnFailure ==
    (args.prog = "manage_card" /\ exit_status = Some(1)) =>
        \A i \in 1..Len(calls) :
            calls[i].state = "returned" =>
                \E k \in 1..Len(stdout) : stdout[k] = StatusLineOf(calls[i])

\* C9: in each script, a TrelloError raised by a client call ends the run:
\* the process has exited with a non-zero status, the error message is what
\* was printed to the error stream, and nothing was printed to standard
\* output.
C9_TrelloErrorExitsNonZero ==
    \A i \in 1..Len(calls) :
        (calls[i].state = "raised" /\ calls[i].result.exc = "TrelloError") =>
            /\ pc = "done"
            /\ exit_status # None
            /\ exit_status[1] # 0
            /\ stderr = <<calls[i].result.message>>
            /\ stdout = <<>>

C9_Witness ==
    /\ args.prog = "create_card"
    /\ Len(calls) = 3
    /\ calls[3].state = "raised"
    /\ calls[3].result.exc = "TrelloError"
    /\ calls[3].exchange # None

\* an --attachment argument that names no existing regular file
BadAttachment(a) ==
    LET expanded == IF a # <<>> /\ a[1] = "~" THEN HomeDir \o Tail(a) ELSE a
    IN ~\E f \in FileSystem : f.path = expanded
SomeAttachmentBad ==
    \E k \in 1..Len(AttachmentsRequested) : BadAttachment(AttachmentsRequested[k])
FirstBadAttachment ==
    AttachmentsRequested[CHOOSE k \in 1..Len(AttachmentsRequested) :
        /\ BadAttachment(AttachmentsRequested[k])
        /\ \A j \in 1..(k - 1) : ~BadAttachment(AttachmentsRequested[j])]
ValidationFailed ==
    /\ stderr # <<>>
    /\ stderr[1][1] = "Attachment not found or not a file: "

\* C11: when some supplied attachment path is no existing regular file,
\* manage_card issues no upload request for any path (the valid ones listed
\* before the bad one included) and no mark-complete request, and never exits
\* with status 0; once the validation has refused the path the run has ended
\* with status 1, the first bad path named on the error stream, and a
\* requested comment is the one request made, already answered.
C11_AttachmentsValidatedBeforeUpload ==
    (args.prog = "manage_card" /\ SomeAttachmentBad) =>
        /\ \A k \in 1..Len(Issued) :
              /\ Issued[k][3] = <<>>
              /\ Issued[k][1] # "PUT"
        /\ exit_status # Some(0)
        /\ pc = "done" => exit_status = Some(1)
        /\ ValidationFailed =>
              /\ pc = "done"
              /\ exit_status = Some(1)
              /\ stdout = <<>>
              /\ stderr = << <<"Attachment not found or not a file: ">>
                                \o FirstBadAttachment >>
              /\ CommentRequested =>
                    /\ Len(calls) = 1
                    /\ calls[1].state = "returned"
                    /\ Issued = << <<"POST", <<"/", "cards", "/">> \o args.card
                                       \o <<"/", "actions", "/", "comments">>, <<>> >> >>
              /\ ~CommentRequested => calls = <<>>

C11_Witness ==
    /\ args.prog = "manage_card"
    /\ CommentRequested
    /\ args.complete
    /\ Len(AttachmentsRequested) = 2
    /\ ~BadAttachment(AttachmentsRequested[1])
    /\ BadAttachment(AttachmentsRequested[2])
    /\ ValidationFailed
    /\ exit_status = Some(1)
    /\ Len(calls) = 1

====
